---- MODULE Spec2Model ----
(***************************************************************************)
(* Model of the resource-fetch pipeline of the browser:                    *)
(*   chapters/01. Downloading Web Pages/exercise.py  (URL, URL.request)    *)
(*   browser.py                                      (URL.__init__)        *)
(*                                                                         *)
(* Strings are sequences of tokens.  The delimiters the code splits and    *)
(* searches on (":", "/", ",", "=", " ") are one-character tokens, as are  *)
(* the signs "-" and "+" that int() looks at; every other token is a run   *)
(* of characters holding no delimiter, so the code's split / startswith /  *)
(* find on characters are the same operations on tokens.                   *)
(***************************************************************************)
EXTENDS Integers, Sequences, FiniteSets, TLC

\* ------------------------------------------------------------------------
\* Bounds of the model (not program constants)
\* ------------------------------------------------------------------------
MaxTime == 2
MaxFetches == 2
MaxChain == 6
MaxBody == 5
MaxDirectives == 2

None == "None"

\* ------------------------------------------------------------------------
\* str operations of Python, on token sequences
\* ------------------------------------------------------------------------
Str(t) == <<t>>

In(t, s) == \E i \in 1..Len(s) : s[i] = t

\* s.find(t) + 1   (0 when t does not occur)
Find(s, t) == IF In(t, s) THEN CHOOSE i \in 1..Len(s) : s[i] = t /\ \A j \in 1..(i-1) : s[j] # t ELSE 0

\* s.split(t, 1): one part when t does not occur, else two
Split1(s, t) == IF In(t, s) THEN <<SubSeq(s, 1, Find(s, t) - 1), SubSeq(s, Find(s, t) + 1, Len(s))>> ELSE <<s>>

RECURSIVE Split(_, _)
\* s.split(t): every part
Split(s, t) == IF In(t, s) THEN <<SubSeq(s, 1, Find(s, t) - 1)>> \o Split(SubSeq(s, Find(s, t) + 1, Len(s)), t) ELSE <<s>>

StartsWith(s, p) == Len(p) =< Len(s) /\ SubSeq(s, 1, Len(p)) = p

EndsWith(s, p) == Len(p) =< Len(s) /\ SubSeq(s, Len(s) - Len(p) + 1, Len(s)) = p

\* p in s   (substring)
Contains(s, p) == \E i \in 0..(Len(s) - Len(p)) : SubSeq(s, i + 1, i + Len(p)) = p

\* the whitespace that strip() removes
Whitespace == {" ", "\t", "\r", "\n"}

RECURSIVE Strip(_)
\* s.strip()
Strip(s) == IF s # <<>> /\ s[1] \in Whitespace THEN Strip(Tail(s)) ELSE IF s # <<>> /\ s[Len(s)] \in Whitespace THEN Strip(SubSeq(s, 1, Len(s) - 1)) ELSE s

Digits == {"0", "1", "2", "3", "4", "5", "6", "7", "8", "9", "80", "443", "8080"}

\* value of one token of digits
DigitVal(d) == CASE d = "0" -> 0 [] d = "1" -> 1 [] d = "2" -> 2 [] d = "3" -> 3 [] d = "4" -> 4 [] d = "5" -> 5 [] d = "6" -> 6 [] d = "7" -> 7 [] d = "8" -> 8 [] d = "9" -> 9 [] d = "80" -> 80 [] d = "443" -> 443 [] d = "8080" -> 8080

\* number of decimal digits of one token of digits
DigitWidth(d) == CASE d = "80" -> 100 [] d = "443" -> 1000 [] d = "8080" -> 10000 [] OTHER -> 10

RECURSIVE DigitsVal(_)
DigitsVal(s) == IF s = <<>> THEN 0 ELSE DigitsVal(SubSeq(s, 1, Len(s) - 1)) * DigitWidth(s[Len(s)]) + DigitVal(s[Len(s)])

\* int(s): surrounding whitespace and one sign allowed, then at least one
\* digit and nothing else; anything else raises ValueError (ok = FALSE)
int(s) == LET t == Strip(s)
              signed == t # <<>> /\ t[1] \in {"-", "+"}
              d == IF signed THEN Tail(t) ELSE t
              ok == d # <<>> /\ \A i \in 1..Len(d) : d[i] \in Digits
          IN  [ok |-> ok, val |-> IF ~ok THEN 0 ELSE IF signed /\ t[1] = "-" THEN 0 - DigitsVal(d) ELSE DigitsVal(d)]

\* ------------------------------------------------------------------------
\* URL.__init__ (exercise.py): a URL object, or ok = FALSE when the
\* constructor raises (ValueError of an unpacking or of int, AssertionError)
\* ------------------------------------------------------------------------
Schemes == {Str("http"), Str("https"), Str("file"), Str("data"), Str("view-source")}

Malformed == [ok |-> FALSE]

\* URLLocation keeping the port in the host (lines 43-45 left out)
URLLocation_PortInHost(scheme, body) ==
    LET url_body == IF StartsWith(body, <<"/", "/">>) THEN SubSeq(body, 3, Len(body)) ELSE body
        with_slash == IF In("/", url_body) THEN url_body ELSE url_body \o <<"/">>
        parts == Split1(with_slash, "/")
    IN  IF scheme = Str("file")
        THEN [ok |-> TRUE, scheme |-> scheme, host |-> None, port |-> None, path |-> url_body]
        ELSE [ok |-> TRUE, scheme |-> scheme, host |-> parts[1], port |-> IF scheme = Str("http") THEN 80 ELSE 443, path |-> <<"/">> \o parts[2]]

\* lines 24-45: the scheme is http, https or file
URLLocation(scheme, body) ==
    LET url_body == IF StartsWith(body, <<"/", "/">>) THEN SubSeq(body, 3, Len(body)) ELSE body
        default_port == IF scheme = Str("http") THEN 80 ELSE 443
        with_slash == IF In("/", url_body) THEN url_body ELSE url_body \o <<"/">>
        parts == Split1(with_slash, "/")
        path == <<"/">> \o parts[2]
        hp == Split1(parts[1], ":")
    IN  IF scheme = Str("file")
        THEN [ok |-> TRUE, scheme |-> scheme, host |-> None, port |-> None, path |-> url_body]
        ELSE IF ~In(":", parts[1])
        THEN [ok |-> TRUE, scheme |-> scheme, host |-> parts[1], port |-> default_port, path |-> path]
        ELSE IF ~int(hp[2]).ok
        THEN Malformed
        ELSE [ok |-> TRUE, scheme |-> scheme, host |-> hp[1], port |-> int(hp[2]).val, path |-> path]

RECURSIVE URL(_)
\* URL splitting a data URL at every comma (line 18 without maxsplit) and
\* keeping the second part
URL_DataSplitAll(url) ==
    LET sp == Split1(url, ":")
        scheme == sp[1]
        url_body == sp[2]
    IN  IF ~In(":", url) \/ scheme \notin Schemes
        THEN Malformed
        ELSE IF scheme = Str("data")
        THEN IF ~In(",", url_body)
             THEN Malformed
             ELSE [ok |-> TRUE, scheme |-> scheme, MIME_type |-> Split(url_body, ",")[1], data |-> Split(url_body, ",")[2]]
        ELSE IF scheme = Str("view-source")
        THEN IF ~URL(url_body).ok
             THEN Malformed
             ELSE [ok |-> TRUE, scheme |-> scheme, actual_url |-> URL(url_body)]
        ELSE URLLocation(scheme, url_body)

URL(url) ==
    LET sp == Split1(url, ":")
        scheme == sp[1]
        url_body == sp[2]
    IN  IF ~In(":", url) \/ scheme \notin Schemes
        THEN Malformed
        ELSE IF scheme = Str("data")
        THEN IF ~In(",", url_body)
             THEN Malformed
             ELSE [ok |-> TRUE, scheme |-> scheme, MIME_type |-> Split1(url_body, ",")[1], data |-> Split1(url_body, ",")[2]]
        ELSE IF scheme = Str("view-source")
        THEN IF ~URL(url_body).ok
             THEN Malformed
             ELSE [ok |-> TRUE, scheme |-> scheme, actual_url |-> URL(url_body)]
        ELSE URLLocation(scheme, url_body)

\* ------------------------------------------------------------------------
\* URL.__init__ (browser.py)
\* ------------------------------------------------------------------------
\* index of the first occurrence of the substring p in s, 0 when none
FindSub(s, p) == IF Contains(s, p) THEN CHOOSE i \in 1..Len(s) : SubSeq(s, i, i + Len(p) - 1) = p /\ \A j \in 1..(i-1) : SubSeq(s, j, j + Len(p) - 1) # p ELSE 0

BrowserURL(raw) ==
    LET sep == <<":", "/", "/">>
        at == FindSub(raw, sep)
        scheme == SubSeq(raw, 1, at - 1)
        rest == SubSeq(raw, at + 3, Len(raw))
        url == IF In("/", rest) THEN rest ELSE rest \o <<"/">>
        parts == Split1(url, "/")
        hp == Split1(parts[1], ":")
    IN  IF at = 0 \/ scheme \notin {Str("http"), Str("https")}
        THEN Malformed
        ELSE IF ~In(":", parts[1])
        THEN [ok |-> TRUE, scheme |-> scheme, host |-> parts[1], port |-> IF scheme = Str("http") THEN 80 ELSE 443, path |-> <<"/">> \o parts[2]]
        ELSE IF ~int(hp[2]).ok
        THEN Malformed
        ELSE [ok |-> TRUE, scheme |-> scheme, host |-> hp[1], port |-> int(hp[2]).val, path |-> <<"/">> \o parts[2]]

\* ------------------------------------------------------------------------
\* The environment: the URLs the caller loads, the file system, the
\* responses a server sends
\* ------------------------------------------------------------------------
http == Str("http")
https == Str("https")

RawURLs == {
    <<"http", ":", "/", "/", "h", "/", "p">>,
    <<"http", ":", "/", "/", "h", ":", "443", "/", "p">>,
    <<"https", ":", "/", "/", "h", "/", "p">>,
    <<"data", ":", "t", ",", "d", ",", "e">>,
    <<"file", ":", "/", "/", "/", "f">>,
    <<"file", ":", "/", "/", "/", "x">>,
    <<"view-source", ":", "http", ":", "/", "/", "h", "/", "p">>,
    <<"view-source", ":", "view-source", ":", "data", ":", "t", ",", "d">>,
    <<"ftp", ":", "/", "/", "h", "/">> }

\* open(path).read(): the files that exist, every other path raises IOError
Files == (<<"/", "f">> :> <<"F">>)

Bodies == {<<"A">>, <<"B">>}

Absent == [present |-> FALSE, value |-> <<>>]

Header(v) == [present |-> TRUE, value |-> v]

\* response_headers.get(name, default)
Get(h, default) == IF h.present THEN h.value ELSE default

Locations == {
    Absent,
    Header(<<>>),
    Header(<<"/", "p">>),
    Header(<<"view-source", ":", "http", ":", "/", "/", "h", "/", "p">>) }

CacheControls == {
    Absent,
    Header(<<"max-age", "=", "2">>) }

\* lines 134, 151-155: how the body of a response is delimited: by chunks, by
\* a positive content-length, or by the end of the stream
Framings == {"chunked", "content-length", "close"}

\* status and response_headers of a response, the framing of its body, and
\* the body its framing and encoding decode to (the body of a 3xx response
\* is never read)
Responses ==
    [status : {301}, location : Locations, cache_control : {Header(<<"max-age", "=", "2">>)}, framing : {"content-length"}, body : {<<>>}]
    \cup [status : {200, 204}, location : {Absent}, cache_control : CacheControls, framing : {"content-length"}, body : Bodies]

NoResponse == [status |-> 0, location |-> Absent, cache_control |-> Absent, framing |-> "content-length", body |-> <<>>]

NoSocket == [id |-> 0, tls |-> FALSE]

NoResponseYet == [url |-> Malformed, cache_control |-> <<>>, body |-> <<>>, at |-> 0]

\* ------------------------------------------------------------------------
\* State
\* ------------------------------------------------------------------------
VARIABLES
    open_sockets,   \* exercise.py:7   {(host, port): socket}
    cache,          \* exercise.py:10  {url: (response_body, expiry_timestamp)}
    clock,          \* time.time()
    pc,             \* where the caller's load() is: idle, call, wait, done, failed
    self,           \* the URL object whose request() is running (Malformed: none is)
    redirects,      \* the redirects argument of that request()
    s,              \* the socket that request() obtained
    response,       \* status and response_headers of the response last read
    result,         \* the body request() returned
    error,          \* the exception that ended the fetch
    raw,            \* the input: the URL string the caller loads (the text or bytes given to a function run on its own)
    fetches,        \* number of load() calls so far
    connects,       \* number of connections established (lines 61-70 completed)
    sent,           \* number of requests written (s.send) by the running fetch
    requested,      \* the (host, port) pairs request() was run for
    chain,          \* number of 3xx responses received in the running fetch
    got,            \* the last 200 response with a max-age directive: its URL, header, body and time
    unread,         \* ids of the sockets that hold bytes of a response request() stopped reading
    closed,         \* ids of the sockets that were read to the end of the stream
    stream          \* the bytes the file object of line 99 has yet to deliver, where a decoder is run on its own

vars == <<open_sockets, cache, clock, pc, self, redirects, s, response, result, error, raw, fetches, connects, sent, requested, chain, got, unread, closed, stream>>

\* the empty dict
EmptyDict == [k \in {} |-> None]

\* d without key k
Del(d, k) == [x \in DOMAIN d \ {k} |-> d[x]]

\* d[k] = v
Put(d, k, v) == [x \in DOMAIN d \cup {k} |-> IF x = k THEN v ELSE d[x]]

Init ==
    /\ open_sockets = EmptyDict
    /\ cache = EmptyDict
    /\ clock = 0
    /\ pc = "idle"
    /\ self = Malformed
    /\ redirects = 0
    /\ s = NoSocket
    /\ response = NoResponse
    /\ result = None
    /\ error = None
    /\ raw = <<>>
    /\ fetches = 0
    /\ connects = 0
    /\ sent = 0
    /\ requested = {}
    /\ chain = 0
    /\ got = NoResponseYet
    /\ unread = {}
    /\ closed = {}
    /\ stream = <<>>

\* ------------------------------------------------------------------------
\* Response cache (exercise.py:75-83, 163-181)
\* ------------------------------------------------------------------------
\* line 75: the cache key
CacheKey(u) == u.scheme \o <<":", "/", "/">> \o u.host \o u.path

\* Fresh with the comparison of line 80 made inclusive
Fresh_Inclusive(expiry, now) == now =< expiry

\* line 80: the entry may be served (expiry is never None: line 174 sets it
\* whenever should_cache is set)
Fresh(expiry, now) == now < expiry

RECURSIVE Directives_ZeroOnError(_, _)
\* Directives taking a max-age that int() rejects as 0
Directives_ZeroOnError(ds, now) ==
    IF ds = <<>>
    THEN [should_cache |-> FALSE, expiry |-> 0]
    ELSE LET directive == Strip(Head(ds))
         IN  IF StartsWith(directive, <<"max-age", "=">>)
             THEN [should_cache |-> TRUE, expiry |-> now + int(Split(directive, "=")[2]).val]
             ELSE Directives_ZeroOnError(Tail(ds), now)

RECURSIVE Directives(_, _)
\* lines 170-178: the loop over the directives; ValueError leaves the loop
Directives(ds, now) ==
    IF ds = <<>>
    THEN [should_cache |-> FALSE, expiry |-> 0]
    ELSE LET directive == Strip(Head(ds))
         IN  IF StartsWith(directive, <<"max-age", "=">>)
             THEN LET max_age == int(Split(directive, "=")[2])
                  IN  IF max_age.ok
                      THEN [should_cache |-> TRUE, expiry |-> now + max_age.val]
                      ELSE [should_cache |-> FALSE, expiry |-> 0]
             ELSE Directives(Tail(ds), now)

\* CacheStatus accepting every 2xx status
CacheStatus_Any2xx(status) == 200 =< status /\ status < 300

\* line 163
CacheStatus(status) == status = 200

\* lines 164-178
CachePolicy(cache_control, now) ==
    IF Contains(cache_control, <<"max-age", "=">>)
    THEN Directives(Split(cache_control, ","), now)
    ELSE [should_cache |-> FALSE, expiry |-> 0]

\* CacheInsert storing max_age itself as the expiry (line 174 without time.time())
CacheInsert_NoClock(c, url, status, cache_control, body, now) ==
    IF status = 200 /\ CachePolicy(cache_control, now).should_cache
    THEN Put(c, url, [body |-> body, expiry |-> CachePolicy(cache_control, now).expiry - now])
    ELSE c

\* lines 163-181: the cache after a response with this status
CacheInsert(c, url, status, cache_control, body, now) ==
    IF CacheStatus(status) /\ CachePolicy(cache_control, now).should_cache
    THEN Put(c, url, [body |-> body, expiry |-> CachePolicy(cache_control, now).expiry])
    ELSE c

\* ------------------------------------------------------------------------
\* load(URL(raw)) and URL.request (exercise.py:47-183, 236-253)
\* ------------------------------------------------------------------------
RedirectLimit == 5

IsHTTP(u) == u.ok /\ u.scheme \in {http, https}

\* line 57
SocketKey(u) == <<u.host, u.port>>

\* Pooled finding no socket, so that every request() connects anew
Pooled_Never(pool, socket_key) == FALSE

\* line 58
Pooled(pool, socket_key) == socket_key \in DOMAIN pool

\* Resolve joining the path and a relative Location without the "/" of line 129
Resolve_NoSeparator(u, redirect_location) ==
    IF Contains(redirect_location, <<":", "/", "/">>)
    THEN redirect_location
    ELSE IF StartsWith(redirect_location, <<"/">>)
    THEN u.scheme \o <<":", "/", "/">> \o u.host \o redirect_location
    ELSE u.scheme \o <<":", "/", "/">> \o u.host \o u.path \o redirect_location

\* lines 119-129: the Location of a redirect as a URL string
Resolve(u, redirect_location) ==
    IF Contains(redirect_location, <<":", "/", "/">>)
    THEN redirect_location
    ELSE IF StartsWith(redirect_location, <<"/">>)
    THEN u.scheme \o <<":", "/", "/">> \o u.host \o redirect_location
    ELSE IF EndsWith(u.path, <<"/">>)
    THEN u.scheme \o <<":", "/", "/">> \o u.host \o u.path \o redirect_location
    ELSE u.scheme \o <<":", "/", "/">> \o u.host \o u.path \o <<"/">> \o redirect_location

\* TooMany testing the count of the call to come, redirects + 1
TooMany_Incremented(n) == n + 1 >= RedirectLimit

\* line 112
TooMany(n) == n >= RedirectLimit

\* NoLocation comparing with "" only, so that an absent header passes
NoLocation_EmptyOnly(h) == h.present /\ h.value = <<>>

\* line 116: not redirect_location
NoLocation(h) == ~h.present \/ h.value = <<>>

\* request() returns body to load(), or raises exc; its locals are gone
Ends(how, body, exc) ==
    /\ pc' = how
    /\ result' = body
    /\ error' = exc
    /\ self' = Malformed
    /\ redirects' = 0
    /\ s' = NoSocket

\* lines 248-253, 13-45: after dt seconds the caller builds the URL object and
\* calls request()
Load(u, dt) ==
    /\ pc = "idle"
    /\ fetches < MaxFetches
    /\ fetches' = fetches + 1
    /\ clock' = clock + dt
    /\ raw' = u
    /\ IF URL(u).ok
       THEN pc' = "call" /\ self' = URL(u) /\ redirects' = 0 /\ UNCHANGED <<s, result, error>>
       ELSE Ends("failed", None, "MalformedURL")
    /\ UNCHANGED <<open_sockets, cache, response, connects, sent, requested, chain, got, unread, closed, stream>>

\* lines 48-50: request() of the wrapped URL, with the default redirects=0
RequestViewSource ==
    /\ pc = "call"
    /\ self.scheme = Str("view-source")
    /\ self' = self.actual_url
    /\ redirects' = 0
    /\ UNCHANGED <<open_sockets, cache, clock, pc, s, response, result, error, raw, fetches, connects, sent, requested, chain, got, unread, closed, stream>>

\* lines 51-53
RequestFile ==
    /\ pc = "call"
    /\ self.scheme = Str("file")
    /\ IF self.path \in DOMAIN Files
       THEN Ends("done", Files[self.path], None)
       ELSE Ends("failed", None, "IOError")
    /\ UNCHANGED <<open_sockets, cache, clock, response, raw, fetches, connects, sent, requested, chain, got, unread, closed, stream>>

\* lines 54-55
RequestData ==
    /\ pc = "call"
    /\ self.scheme = Str("data")
    /\ Ends("done", self.data, None)
    /\ UNCHANGED <<open_sockets, cache, clock, response, raw, fetches, connects, sent, requested, chain, got, unread, closed, stream>>

\* lines 57-96: obtain the socket, look the URL up in the cache, and on a
\* miss write the request
RequestHTTP ==
    /\ pc = "call"
    /\ IsHTTP(self)
    /\ LET socket_key == SocketKey(self)
           pooled == Pooled(open_sockets, socket_key)
           sock == IF pooled THEN open_sockets[socket_key] ELSE [id |-> connects + 1, tls |-> self.scheme = https]
           url == CacheKey(self)
           now == clock
       IN  /\ open_sockets' = Put(open_sockets, socket_key, sock)
           /\ connects' = IF pooled THEN connects ELSE connects + 1
           /\ requested' = requested \cup {socket_key}
           /\ IF url \in DOMAIN cache /\ Fresh(cache[url].expiry, now)
              THEN /\ Ends("done", cache[url].body, None)
                   /\ UNCHANGED <<cache, sent>>
              ELSE /\ pc' = "wait"
                   /\ s' = sock
                   /\ cache' = Del(cache, url)
                   /\ sent' = sent + 1
                   /\ UNCHANGED <<self, redirects, result, error>>
    /\ UNCHANGED <<clock, response, raw, fetches, chain, got, unread, closed, stream>>

\* lines 61-70: s.connect or the TLS handshake of wrap_socket raises; nothing
\* is stored in open_sockets
ConnectFails ==
    /\ pc = "call"
    /\ IsHTTP(self)
    /\ ~Pooled(open_sockets, SocketKey(self))
    /\ requested' = requested \cup {SocketKey(self)}
    /\ Ends("failed", None, "ConnectionError")
    /\ UNCHANGED <<open_sockets, cache, clock, response, raw, fetches, connects, sent, chain, got, unread, closed, stream>>

\* lines 99-183: read and act on a well-formed response, which arrives
\* after dt seconds.  The body of a 3xx response stays in the stream (lines
\* 111-132 return before the body is read); read() of line 155 returns when
\* the peer has closed the stream.
Receive(r, dt) ==
    /\ pc = "wait"
    /\ s.id \notin closed
    /\ clock' = clock + dt
    /\ response' = r
    /\ IF 300 =< r.status /\ r.status < 400
       THEN /\ chain < MaxChain
            /\ chain' = chain + 1
            /\ unread' = IF r.body # <<>> THEN unread \cup {s.id} ELSE unread
            /\ UNCHANGED <<cache, got, closed>>
            /\ IF TooMany(redirects)
               THEN Ends("failed", None, "TooManyRedirects")
               ELSE IF NoLocation(r.location)
               THEN Ends("failed", None, "MissingLocationHeader")
               ELSE IF ~URL(Resolve(self, r.location.value)).ok
               THEN Ends("failed", None, "MalformedURL")
               ELSE /\ pc' = "call"
                    /\ self' = URL(Resolve(self, r.location.value))
                    /\ redirects' = redirects + 1
                    /\ UNCHANGED <<s, result, error>>
       ELSE /\ Ends("done", r.body, None)
            /\ cache' = CacheInsert(cache, CacheKey(self), r.status, Get(r.cache_control, <<>>), r.body, clock')
            /\ got' = IF r.status = 200 /\ Contains(Get(r.cache_control, <<>>), <<"max-age", "=">>)
                      THEN [url |-> self, cache_control |-> r.cache_control.value, body |-> r.body, at |-> clock']
                      ELSE got
            /\ closed' = IF r.framing = "close" THEN closed \cup {s.id} ELSE closed
            /\ UNCHANGED <<chain, unread>>
    /\ UNCHANGED <<open_sockets, raw, fetches, connects, sent, requested, stream>>

\* lines 100-108, 134-161: a status line, header line, chunk size or body
\* encoding that does not parse raises; left: bytes of the response follow
\* the place where reading stopped
ReceiveMalformed(left) ==
    /\ pc = "wait"
    /\ Ends("failed", None, "ProtocolError")
    /\ unread' = IF left THEN unread \cup {s.id} ELSE unread
    /\ UNCHANGED <<open_sockets, cache, clock, response, raw, fetches, connects, sent, requested, chain, got, closed, stream>>

\* lines 236-244: load() has shown the body (or the exception has ended it)
Return ==
    /\ pc \in {"done", "failed"}
    /\ pc' = "idle"
    /\ response' = NoResponse
    /\ result' = None
    /\ error' = None
    /\ raw' = <<>>
    /\ chain' = 0
    /\ sent' = 0
    /\ UNCHANGED <<open_sockets, cache, clock, self, redirects, s, fetches, connects, requested, got, unread, closed, stream>>

\* the seconds that may pass while the program blocks
Delays == {dt \in 0..MaxTime : clock + dt =< MaxTime}

Next ==
    \/ \E u \in RawURLs, dt \in Delays : Load(u, dt)
    \/ RequestViewSource
    \/ RequestFile
    \/ RequestData
    \/ RequestHTTP
    \/ ConnectFails
    \/ \E r \in Responses, dt \in Delays : Receive(r, dt)
    \/ \E left \in BOOLEAN : ReceiveMalformed(left)
    \/ Return

Spec == Init /\ [][Next]_vars

\* ------------------------------------------------------------------------
\* The URL constructors alone, on every URL string of a bounded length
\* ------------------------------------------------------------------------
BoundedSeq(S, n) == UNION {[1..k -> S] : k \in 0..n}

ParseTokens == {"/", ":", "h", "8", "p"}

ParseInputs == {scheme \o <<":">> \o slashes \o body : scheme \in {http, https}, slashes \in {<<>>, <<"/", "/">>}, body \in BoundedSeq(ParseTokens, MaxBody)}

InitParse ==
    /\ Init!1 /\ Init!2 /\ Init!3
    /\ pc = "parse"
    /\ self = Malformed
    /\ redirects = 0
    /\ s = NoSocket
    /\ response = NoResponse
    /\ result = None
    /\ error = None
    /\ raw \in ParseInputs
    /\ fetches = 0
    /\ connects = 0
    /\ sent = 0
    /\ requested = {}
    /\ chain = 0
    /\ got = NoResponseYet
    /\ unread = {}
    /\ closed = {}
    /\ stream = <<>>

\* exercise.py:13-45
Parse ==
    /\ pc = "parse"
    /\ pc' = "parsed"
    /\ self' = URL(raw)
    /\ UNCHANGED <<open_sockets, cache, clock, redirects, s, response, result, error, raw, fetches, connects, sent, requested, chain, got, unread, closed, stream>>

\* browser.py:10-26
ParseBrowser ==
    /\ pc = "parse"
    /\ pc' = "parsed"
    /\ self' = BrowserURL(raw)
    /\ UNCHANGED <<open_sockets, cache, clock, redirects, s, response, result, error, raw, fetches, connects, sent, requested, chain, got, unread, closed, stream>>

NextParse == Parse \/ ParseBrowser

SpecParse == InitParse /\ [][NextParse]_vars

\* ------------------------------------------------------------------------
\* C10
\* ------------------------------------------------------------------------
\* what follows "scheme:" and an optional "//" in the URL string
AfterScheme(u) ==
    LET rest == Split1(u, ":")[2]
    IN  IF StartsWith(rest, <<"/", "/">>) THEN SubSeq(rest, 3, Len(rest)) ELSE rest

\* the part of the URL string before its path
Authority(u) == Split1(AfterScheme(u), "/")[1]

\* C10: every http/https URL that parses has a path that is non-empty and
\* begins with "/" (exactly "/" when the string has no path), a host without
\* ":" and the explicit port when the string gives one, else 80 for http and
\* 443 for https; of both constructors.
C10_ParseInvariant ==
    (pc = "parsed" /\ self.ok) =>
        /\ self.scheme \in {http, https}
        /\ self.path # <<>>
        /\ self.path[1] = "/"
        /\ (~In("/", AfterScheme(raw)) => self.path = <<"/">>)
        /\ ~In(":", self.host)
        /\ IF In(":", Authority(raw))
           THEN /\ self.host = Split1(Authority(raw), ":")[1]
                /\ int(Split1(Authority(raw), ":")[2]).ok
                /\ self.port = int(Split1(Authority(raw), ":")[2]).val
           ELSE /\ self.host = Authority(raw)
                /\ self.port = (IF self.scheme = http THEN 80 ELSE 443)

\* a URL with an explicit port and no path has been parsed
C10_Witness ==
    /\ pc = "parsed"
    /\ self.ok
    /\ raw = <<"https", ":", "/", "/", "h", ":", "8", "8">>
    /\ self.port = 88
    /\ self.path = <<"/">>

\* ------------------------------------------------------------------------
\* C1, C2, C7: the response cache
\* ------------------------------------------------------------------------
\* the header is exactly max-age=N, N one digit
IsMaxAge(cc) == Len(cc) = 3 /\ cc[1] = "max-age" /\ cc[2] = "=" /\ cc[3] \in {"0", "1", "2", "3", "4", "5", "6", "7", "8", "9"}

\* request() of an http/https URL takes its step (lines 57-96)
RequestStep == pc = "call" /\ IsHTTP(self) /\ pc' # "call"

\* C1: once a request for a URL has received a 200 response with
\* Cache-Control max-age=N, a later request() of the same URL made while
\* now < insertion time + N returns the body of that response, writes no
\* request and reads no response.
C1_CacheRoundTrip ==
    [][(RequestStep /\ self = got.url /\ IsMaxAge(got.cache_control) /\ clock < got.at + DigitVal(got.cache_control[3]))
        => (pc' = "done" /\ result' = got.body /\ sent' = sent /\ response' = response /\ cache' = cache)]_vars

\* the second load of a URL is served from the cache, one second after the
\* first stored its body
C1_Witness ==
    /\ pc = "done"
    /\ fetches = 2
    /\ raw = <<"http", ":", "/", "/", "h", "/", "p">>
    /\ got.url = URL(raw)
    /\ got.at = 0
    /\ clock = 1
    /\ sent = 0
    /\ result = got.body
    /\ result = <<"B">>

\* C2: a cache lookup serves the stored body only while now < expiry; a
\* lookup with now >= expiry removes the entry and the request is written, so
\* no request() returns the body of an entry whose expiry has passed.
C2_CacheExpiry ==
    [][(RequestStep /\ pc' # "failed") =>
        LET url == self.scheme \o <<":", "/", "/">> \o self.host \o self.path
        IN  /\ pc' = "done" => (url \in DOMAIN cache /\ clock < cache[url].expiry /\ result' = cache[url].body)
            /\ (url \in DOMAIN cache /\ clock < cache[url].expiry) => (pc' = "done" /\ cache' = cache /\ sent' = sent)
            /\ (url \in DOMAIN cache /\ clock >= cache[url].expiry) => (pc' = "wait" /\ url \notin DOMAIN cache' /\ sent' = sent + 1)]_vars

\* an entry stored at time 0 with max-age=2 was looked up at time 2: it is
\* gone and the request is on the wire
C2_Witness ==
    /\ pc = "wait"
    /\ fetches = 2
    /\ chain = 0
    /\ got.url = self
    /\ got.at = 0
    /\ clock = 2
    /\ cache = EmptyDict

\* C7: a cache entry is created or overwritten only by a response with status
\* 200 whose cache-control header carries a max-age directive, for the URL
\* of the request it answers.
C7_InsertionGuard ==
    [][\A k \in DOMAIN cache' : (k \notin DOMAIN cache \/ cache'[k] # cache[k]) =>
        /\ pc = "wait"
        /\ pc' = "done"
        /\ k = self.scheme \o <<":", "/", "/">> \o self.host \o self.path
        /\ response'.status = 200
        /\ response'.cache_control.present
        /\ Contains(response'.cache_control.value, <<"max-age", "=">>)
        /\ cache'[k].body = response'.body
        /\ result' = response'.body]_vars

\* a 204 response with max-age=2 was returned and nothing was stored
C7_Witness ==
    /\ pc = "done"
    /\ response.status = 204
    /\ response.cache_control = Header(<<"max-age", "=", "2">>)
    /\ result = response.body
    /\ cache = EmptyDict

\* ------------------------------------------------------------------------
\* C3, C4: redirects
\* ------------------------------------------------------------------------
\* a 3xx response is read
RedirectStep == pc = "wait" /\ chain' = chain + 1

\* C3: in a fetch started with redirect count 0, each of the first five
\* consecutive 3xx responses (with a Location) is followed and a non-3xx
\* response after them succeeds; a sixth consecutive 3xx response makes the
\* fetch fail with TooManyRedirects and is not followed.
C3_RedirectLimit ==
    [][/\ (RedirectStep /\ chain < 5 /\ response'.location.present /\ response'.location.value # <<>>) => pc' = "call"
       /\ (RedirectStep /\ chain >= 5) => (pc' = "failed" /\ error' = "TooManyRedirects")
       /\ (pc = "wait" /\ chain' = chain /\ chain =< 5) => error' # "TooManyRedirects"]_vars

\* C4 as stated: a 3xx response without a Location header always ends the
\* fetch with MissingLocationHeader and without further I/O.
C4_MissingLocation_AsStated ==
    [][(RedirectStep /\ ~response'.location.present) =>
        /\ pc' = "failed"
        /\ error' = "MissingLocationHeader"
        /\ result' = None
        /\ UNCHANGED <<open_sockets, cache, connects, sent>>]_vars

\* C4 (amended): a 3xx response without a Location header, read by a
\* request() whose redirects argument is below 5, ends the fetch with
\* MissingLocationHeader; read with redirects = 5 it ends the fetch with
\* TooManyRedirects.  Either way no request is written, no connection is
\* opened, no body is returned and the cache gains no entry, then or until
\* the fetch has ended.
C4_MissingLocation ==
    [][/\ (RedirectStep /\ ~response'.location.present) =>
            /\ pc' = "failed"
            /\ error' = (IF redirects < 5 THEN "MissingLocationHeader" ELSE "TooManyRedirects")
            /\ result' = None
            /\ UNCHANGED <<open_sockets, cache, connects, sent>>
       /\ pc = "failed" => (pc' = "idle" /\ UNCHANGED <<open_sockets, cache, connects>>)]_vars

\* the second response of a fetch was a redirect without Location
C4_Witness ==
    /\ pc = "failed"
    /\ error = "MissingLocationHeader"
    /\ response.status = 301
    /\ ~response.location.present
    /\ chain = 2
    /\ sent = 2

\* ------------------------------------------------------------------------
\* C5, C6: the connection pool
\* ------------------------------------------------------------------------
\* what C5 says of one step, but for the number of connections
PoolStep ==
    /\ connects' # connects =>
            /\ pc = "call"
            /\ IsHTTP(self)
            /\ <<self.host, self.port>> \notin DOMAIN open_sockets
            /\ <<self.host, self.port>> \in DOMAIN open_sockets'
            /\ connects' = connects + 1
    /\ \A k \in DOMAIN open_sockets : k \in DOMAIN open_sockets' /\ open_sockets'[k] = open_sockets[k]

\* C5 as stated: a connection is established only when the pool has no
\* entry for the request's (host, port), the number of connections
\* established equals the number of distinct (host, port) pairs requested,
\* and a pool entry is never removed or replaced.
C5_ConnectionReuse_AsStated == [][PoolStep /\ connects' = Cardinality(requested')]_vars

\* C5 (amended): a connection is established only when the pool has no
\* entry for the request's (host, port); every connection established is
\* stored, so the number of connections established equals the number of
\* distinct (host, port) pairs in the pool (exactly 1 for 2 sequential
\* fetches of which the first connected), while a pair whose connection
\* could not be established has no entry and is tried again by the next
\* request; a pool entry is never removed or replaced.
C5_ConnectionReuse ==
    [][/\ PoolStep
       /\ connects' = Cardinality(DOMAIN open_sockets')
       /\ DOMAIN open_sockets' \subseteq requested'
       /\ (pc = "call" /\ pc' = "failed" /\ error' = "ConnectionError") => open_sockets' = open_sockets]_vars

\* the second fetch of a URL writes its request to the one connection that
\* the first fetch established
C5_Witness ==
    /\ pc = "wait"
    /\ fetches = 2
    /\ chain = 0
    /\ got.url = self
    /\ connects = 1
    /\ s.id = 1
    /\ requested = {<<<<"h">>, 80>>}

\* C6: a socket that was TLS-wrapped for an https request is never the
\* socket of an http request, nor a plain socket that of an https request.
C6_PoolScheme == pc = "wait" => (s.tls <=> self.scheme = https)

\* ------------------------------------------------------------------------
\* C9: the dispatch on the scheme
\* ------------------------------------------------------------------------
RECURSIVE Innermost(_)
\* the URL string with every leading "view-source:" taken off
Innermost(u) == IF StartsWith(u, <<"view-source", ":">>) THEN Innermost(SubSeq(u, 3, Len(u))) ELSE u

\* the URL string names inline data or a file, possibly under view-source
IsLocal(u) == StartsWith(Innermost(u), <<"data", ":">>) \/ StartsWith(Innermost(u), <<"file", ":">>)

\* C9: the fetch of a data URL returns its inline data unchanged, that of a
\* file URL the contents of the file; the fetch of a view-source URL, at any
\* nesting depth, runs the request() that the fetch of its wrapped URL
\* runs, with the same redirect count, and unwrapping does nothing else;
\* fetches of data and file URLs open no connection, write no request and
\* leave the pool and the cache unchanged.
C9_FacadeDispatch ==
    [][/\ (pc' = "done" /\ StartsWith(Innermost(raw'), <<"data", ":">>)) =>
            result' = Split1(Innermost(raw'), ",")[2]
       /\ (pc' = "done" /\ StartsWith(Innermost(raw'), <<"file", ":", "/", "/">>)) =>
            result' = Files[SubSeq(Innermost(raw'), 5, Len(Innermost(raw')))]
       /\ (pc' = "call" /\ chain' = 0 /\ self'.scheme # Str("view-source")) =>
            (self' = URL(Innermost(raw')) /\ redirects' = 0)
       /\ (pc = "call" /\ self.scheme = Str("view-source")) =>
            UNCHANGED <<open_sockets, cache, clock, pc, result, error, connects, requested, sent>>
       /\ (IsLocal(raw) \/ IsLocal(raw')) =>
            (UNCHANGED <<open_sockets, cache, connects, requested>> /\ sent' = 0)]_vars

\* a data URL wrapped twice in view-source has been fetched
C9_Witness ==
    /\ pc = "done"
    /\ raw = <<"view-source", ":", "view-source", ":", "data", ":", "t", ",", "d">>
    /\ result = <<"d">>
    /\ open_sockets = EmptyDict

\* ------------------------------------------------------------------------
\* The cache insertion alone (exercise.py:163-181), on responses with every
\* cache-control value of a bounded number of directives
\* ------------------------------------------------------------------------
DirectiveTexts == {
    <<"no-cache">>,
    <<"max-age", "=", "2">>,
    <<" ", "max-age", "=", "1">>,
    <<"max-age", "=", "-", "1">>,
    <<"max-age", "=", "x">>,
    <<"max-age", "=">> }

RECURSIVE Join(_)
\* the directives, comma-separated
Join(ds) == IF Len(ds) = 1 THEN ds[1] ELSE ds[1] \o <<",">> \o Join(Tail(ds))

CacheHeaders == {Absent} \cup {Header(Join(ds)) : ds \in BoundedSeq(DirectiveTexts, MaxDirectives) \ {<<>>}}

InitCache ==
    /\ Init!1 /\ Init!2
    /\ clock \in 0..MaxTime
    /\ pc = "insert"
    /\ self = URL(<<"http", ":", "/", "/", "h", "/", "p">>)
    /\ redirects = 0
    /\ s = NoSocket
    /\ response \in [status : {200, 204}, location : {Absent}, cache_control : CacheHeaders, body : {<<"A">>}]
    /\ result = None
    /\ error = None
    /\ raw = <<>>
    /\ fetches = 0
    /\ connects = 0
    /\ sent = 0
    /\ requested = {}
    /\ chain = 0
    /\ got = NoResponseYet
    /\ unread = {}
    /\ closed = {}
    /\ stream = <<>>

\* lines 163-183
Insert ==
    /\ pc = "insert"
    /\ pc' = "inserted"
    /\ cache' = CacheInsert(cache, CacheKey(self), response.status, Get(response.cache_control, <<>>), response.body, clock)
    /\ result' = response.body
    /\ UNCHANGED <<open_sockets, clock, self, redirects, s, response, error, raw, fetches, connects, sent, requested, chain, got, unread, closed, stream>>

NextCache == Insert

SpecCache == InitCache /\ [][NextCache]_vars

\* ------------------------------------------------------------------------
\* C8
\* ------------------------------------------------------------------------
\* the comma-separated directives of a cache-control value, stripped
Stripped(cc) == [i \in 1..Len(Split(cc, ",")) |-> Strip(Split(cc, ",")[i])]

\* the text after "max-age=" of the first max-age directive, <<"none">> when
\* there is none
FirstMaxAge(cc) ==
    LET ds == Stripped(cc)
        at == {i \in 1..Len(ds) : StartsWith(ds[i], <<"max-age", "=">>)}
    IN  IF at = {} THEN <<"none">>
        ELSE LET i == CHOOSE i \in at : \A j \in at : i =< j IN SubSeq(ds[i], 3, Len(ds[i]))

\* the text is a non-negative integer
IsNatural(t) == t # <<>> /\ \A i \in 1..Len(t) : t[i] \in {"0", "1", "2", "3", "4", "5", "6", "7", "8", "9"}

\* C8: the insertion stores (body, now + max-age) only if the first max-age
\* directive of the cache-control value is a non-negative integer; a
\* negative, non-integer or absent max-age stores nothing.
C8_NonNegativeMaxAge ==
    pc = "inserted" =>
        LET cc == Get(response.cache_control, <<>>)
        IN  IF response.status = 200 /\ IsNatural(FirstMaxAge(cc))
            THEN cache = (CacheKey(self) :> [body |-> response.body, expiry |-> clock + DigitsVal(FirstMaxAge(cc))])
            ELSE cache = EmptyDict

\* ------------------------------------------------------------------------
\* The chunked body decoder alone (exercise.py:134-149), on the streams of
\* chunked bodies of a bounded number of chunks
\* ------------------------------------------------------------------------
MaxChunk == 5
MaxChunks == 2

HexDigits == <<"0", "1", "2", "3", "4", "5", "6", "7", "8", "9", "a", "b", "c", "d", "e", "f">>

HexVal(d) == CHOOSE v \in 0..15 : HexDigits[v + 1] = d

RECURSIVE HexDigitsVal(_)
HexDigitsVal(ds) == IF ds = <<>> THEN 0 ELSE HexDigitsVal(SubSeq(ds, 1, Len(ds) - 1)) * 16 + HexVal(ds[Len(ds)])

\* line 139: int(s, 16); anything but hex digits raises ValueError
int16(size_line) ==
    LET ok == size_line # <<>> /\ \A i \in 1..Len(size_line) : \E v \in 1..16 : HexDigits[v] = size_line[i]
    IN  [ok |-> ok, val |-> IF ok THEN HexDigitsVal(size_line) ELSE 0]

\* response.readline(): the bytes up to and including the next "\n", all of
\* them when there is none
readline(st) ==
    IF In("\n", st)
    THEN [line |-> SubSeq(st, 1, Find(st, "\n")), rest |-> SubSeq(st, Find(st, "\n") + 1, Len(st))]
    ELSE [line |-> st, rest |-> <<>>]

\* response.read(n): the next n bytes, fewer at the end of the stream
read(st, n) ==
    IF n =< Len(st)
    THEN [data |-> SubSeq(st, 1, n), rest |-> SubSeq(st, n + 1, Len(st))]
    ELSE [data |-> st, rest |-> <<>>]

RECURSIVE Chunked_NoSkip(_, _)
\* Chunked without the read(2) of line 148
Chunked_NoSkip(st, body_bytes) ==
    LET size_line == readline(st)
        chunk_size == int16(Strip(size_line.line))
        chunk_data == read(size_line.rest, chunk_size.val)
    IN  IF ~chunk_size.ok
        THEN [ok |-> FALSE, body_bytes |-> body_bytes, rest |-> size_line.rest]
        ELSE IF chunk_size.val = 0
        THEN [ok |-> TRUE, body_bytes |-> body_bytes, rest |-> readline(size_line.rest).rest]
        ELSE Chunked_NoSkip(chunk_data.rest, body_bytes \o chunk_data.data)

RECURSIVE Chunked(_, _)
\* lines 136-149: the loop, from the stream st with body_bytes read so far;
\* ok = FALSE when int of line 139 raises ValueError
Chunked(st, body_bytes) ==
    LET size_line == readline(st)
        chunk_size == int16(Strip(size_line.line))
        chunk_data == read(size_line.rest, chunk_size.val)
    IN  IF ~chunk_size.ok
        THEN [ok |-> FALSE, body_bytes |-> body_bytes, rest |-> size_line.rest]
        ELSE IF chunk_size.val = 0
        THEN [ok |-> TRUE, body_bytes |-> body_bytes, rest |-> readline(size_line.rest).rest]
        ELSE Chunked(read(chunk_data.rest, 2).rest, body_bytes \o chunk_data.data)

\* what a server writes --------------------------------------------------
CRLF == <<"\r", "\n">>

RECURSIVE Hex(_)
\* the hex digits of n
Hex(n) == IF n < 16 THEN <<HexDigits[n + 1]>> ELSE Hex(n \div 16) \o <<HexDigits[(n % 16) + 1]>>

\* n bytes b
Fill(n, b) == [i \in 1..n |-> b]

\* the payloads of the chunks: runs of one byte, of every size up to MaxChunk
\* and of sizes whose hex differs from their decimal, and one that holds
\* the bytes of a last chunk
ChunkPayloads ==
    {Fill(n, b) : n \in (1..MaxChunk) \cup {10, 17}, b \in {"a", "0", "\n"}}
    \cup {<<"0", "\r", "\n", "\r", "\n">>}

RECURSIVE Encode(_)
\* the chunks, each as size line, payload, CRLF, and the last chunk
Encode(chunks) ==
    IF chunks = <<>>
    THEN <<"0">> \o CRLF \o CRLF
    ELSE Hex(Len(Head(chunks))) \o CRLF \o Head(chunks) \o CRLF \o Encode(Tail(chunks))

RECURSIVE Concat(_)
Concat(chunks) == IF chunks = <<>> THEN <<>> ELSE Head(chunks) \o Concat(Tail(chunks))

\* the bytes that follow the body on the connection: none, or the first
\* byte of a later response
Followers == {<<>>, <<"H">>}

InitChunked ==
    /\ Init!1 /\ Init!2 /\ Init!3
    /\ pc = "body"
    /\ self = URL(<<"http", ":", "/", "/", "h", "/", "p">>)
    /\ redirects = 0
    /\ s = NoSocket
    /\ \E chunks \in BoundedSeq(ChunkPayloads, MaxChunks), after \in Followers :
        /\ response = [status |-> 200, location |-> Absent, cache_control |-> Absent, framing |-> "chunked", body |-> Concat(chunks)]
        /\ raw = Encode(chunks) \o after
    /\ stream = raw
    /\ result = None
    /\ error = None
    /\ fetches = 0
    /\ connects = 0
    /\ sent = 0
    /\ requested = {}
    /\ chain = 0
    /\ got = NoResponseYet
    /\ unread = {}
    /\ closed = {}

\* lines 134-149, 157-183 for a response with transfer-encoding: chunked and
\* no content-encoding
ReadBody ==
    /\ pc = "body"
    /\ response.framing = "chunked"
    /\ LET read_ == Chunked(stream, <<>>)
       IN  /\ stream' = read_.rest
           /\ IF read_.ok
              THEN /\ pc' = "done"
                   /\ result' = read_.body_bytes
                   /\ error' = None
                   /\ cache' = CacheInsert(cache, CacheKey(self), response.status, Get(response.cache_control, <<>>), read_.body_bytes, clock)
              ELSE /\ pc' = "failed"
                   /\ result' = None
                   /\ error' = "ProtocolError"
                   /\ cache' = cache
    /\ UNCHANGED <<open_sockets, clock, self, redirects, s, response, raw, fetches, connects, sent, requested, chain, got, unread, closed>>

NextChunked == ReadBody

SpecChunked == InitChunked /\ [][NextChunked]_vars

\* ------------------------------------------------------------------------
\* C11
\* ------------------------------------------------------------------------
IsFollower(b) == b = "H"

\* C11: the body returned for a chunked response is the concatenation, in
\* order, of the payloads of the chunks before the zero-size chunk, without
\* size lines and CRLFs, and reading stops after the CRLF that follows the
\* zero-size chunk: what follows is still in the stream.
C11_ChunkedDecoding ==
    pc # "body" =>
        /\ pc = "done"
        /\ result = response.body
        /\ stream = SelectSeq(raw, IsFollower)
        /\ raw = SubSeq(raw, 1, Len(raw) - Len(stream)) \o stream

\* chunks of sizes 5, 3, 0 give the 8 bytes of the two payloads
C11_Witness ==
    /\ pc = "done"
    /\ raw = <<"5", "\r", "\n", "a", "a", "a", "a", "a", "\r", "\n", "3", "\r", "\n", "\n", "\n", "\n", "\r", "\n", "0", "\r", "\n", "\r", "\n", "H">>
    /\ result = <<"a", "a", "a", "a", "a", "\n", "\n", "\n">>
    /\ Len(result) = 8
    /\ stream = <<"H">>

\* ------------------------------------------------------------------------
\* The resolution of a Location alone (exercise.py:119-129), on every
\* non-empty Location of a bounded length
\* ------------------------------------------------------------------------
MaxLocation == 4

LocationTokens == {"/", ":", "q", "http"}

ResolveLocations == BoundedSeq(LocationTokens, MaxLocation) \ {<<>>}

\* the URLs of the requests that receive the redirect
ResolveBases == {
    <<"http", ":", "/", "/", "h", "/">>,
    <<"http", ":", "/", "/", "h", "/", "p">>,
    <<"https", ":", "/", "/", "h", "/", "d", "/">>,
    <<"http", ":", "/", "/", "h", ":", "8080", "/", "d", "/", "p">> }

InitResolve ==
    /\ Init!1 /\ Init!2 /\ Init!3
    /\ pc = "redirect"
    /\ \E u \in ResolveBases : self = URL(u)
    /\ redirects = 0
    /\ s = NoSocket
    /\ \E redirect_location \in ResolveLocations :
        response = [status |-> 301, location |-> Header(redirect_location), cache_control |-> Absent, framing |-> "content-length", body |-> <<>>]
    /\ result = None
    /\ error = None
    /\ raw = <<>>
    /\ fetches = 0
    /\ connects = 0
    /\ sent = 0
    /\ requested = {}
    /\ chain = 0
    /\ got = NoResponseYet
    /\ unread = {}
    /\ closed = {}
    /\ stream = <<>>

\* lines 115-129: redirect_location, the string that line 131 gives to URL()
Redirect ==
    /\ pc = "redirect"
    /\ ~NoLocation(response.location)
    /\ pc' = "resolved"
    /\ raw' = Resolve(self, response.location.value)
    /\ UNCHANGED <<open_sockets, cache, clock, self, redirects, s, response, result, error, fetches, connects, sent, requested, chain, got, unread, closed, stream>>

NextResolve == Redirect

SpecResolve == InitResolve /\ [][NextResolve]_vars

\* ------------------------------------------------------------------------
\* C12
\* ------------------------------------------------------------------------
\* C12: a Location that contains "://" is used as given; otherwise one that
\* starts with "/" resolves to scheme://host followed by the Location;
\* otherwise it resolves to scheme://host, the current path and the
\* Location, with a "/" between the two exactly when the current path does
\* not end in "/".
C12_LocationResolution ==
    pc = "resolved" =>
        LET location == response.location.value
            origin == self.scheme \o <<":", "/", "/">> \o self.host
            absolute == \E i \in 1..(Len(location) - 2) : location[i] = ":" /\ location[i + 1] = "/" /\ location[i + 2] = "/"
        IN  /\ absolute => raw = location
            /\ (~absolute /\ location[1] = "/") => raw = origin \o location
            /\ (~absolute /\ location[1] # "/" /\ self.path[Len(self.path)] = "/") => raw = origin \o self.path \o location
            /\ (~absolute /\ location[1] # "/" /\ self.path[Len(self.path)] # "/") => raw = origin \o self.path \o <<"/">> \o location

\* the relative Location q, received for http://h/p, became http://h/p/q
C12_Witness ==
    /\ pc = "resolved"
    /\ self.path = <<"/", "p">>
    /\ self.port = 80
    /\ response.location.value = <<"q">>
    /\ raw = <<"http", ":", "/", "/", "h", "/", "p", "/", "q">>

\* ------------------------------------------------------------------------
\* decode_entities alone (exercise.py:186-213), on every text of a bounded
\* length
\* ------------------------------------------------------------------------
MaxText == 4

\* lines 187-193; a name is one token, the characters (c) and -- stand for
\* the copyright sign and the en dash
ENTITIES ==
    (<<"&", "lt", ";">> :> "<") @@ (<<"&", "gt", ";">> :> ">") @@ (<<"&", "copy", ";">> :> "(c)")
    @@ (<<"&", "ndash", ";">> :> "--") @@ (<<"&", "amp", ";">> :> "&")

\* text.find(t, start) + 1, start counted from 1   (0 when t does not occur)
FindFrom(text, t, start) ==
    IF \E j \in start..Len(text) : text[j] = t
    THEN CHOOSE j \in start..Len(text) : text[j] = t /\ \A k \in start..(j - 1) : text[k] # t
    ELSE 0

RECURSIVE EntityLoop_FirstSemicolon(_, _, _)
\* EntityLoop looking for the semicolon from the start of the text
EntityLoop_FirstSemicolon(text, i, result_) ==
    IF i > Len(text)
    THEN result_
    ELSE LET semicolon_index == IF text[i] = "&" THEN FindFrom(text, ";", 1) ELSE 0
             entity == SubSeq(text, i, semicolon_index)
         IN  IF semicolon_index # 0 /\ entity \in DOMAIN ENTITIES
             THEN EntityLoop_FirstSemicolon(text, semicolon_index + 1, result_ \o <<ENTITIES[entity]>>)
             ELSE EntityLoop_FirstSemicolon(text, i + 1, result_ \o <<text[i]>>)

RECURSIVE EntityLoop(_, _, _)
\* lines 198-211: the loop at index i (counted from 1) with the result so far
EntityLoop(text, i, result_) ==
    IF i > Len(text)
    THEN result_
    ELSE LET semicolon_index == IF text[i] = "&" THEN FindFrom(text, ";", i + 1) ELSE 0
             entity == SubSeq(text, i, semicolon_index)
         IN  IF semicolon_index # 0 /\ entity \in DOMAIN ENTITIES
             THEN EntityLoop(text, semicolon_index + 1, result_ \o <<ENTITIES[entity]>>)
             ELSE EntityLoop(text, i + 1, result_ \o <<text[i]>>)

\* lines 186-213
decode_entities(text) == EntityLoop(text, 1, <<>>)

TextTokens == {"&", ";", "lt", "gt", "copy", "ndash", "amp", "foo", "x"}

\* every short text, and some longer ones
Texts ==
    BoundedSeq(TextTokens, MaxText)
    \cup { <<"x", " ", "&", "lt", ";", "x", "&", "gt", ";", " ", "x">>,
           <<"&", "amp", ";", "lt", ";">>,
           <<"&", "foo", ";", "&", "copy", ";", "&", "ndash", ";">>,
           <<"&", "x", "&", "lt", ";", "&", "lt">> }

InitEntities ==
    /\ Init!1 /\ Init!2 /\ Init!3
    /\ pc = "text"
    /\ self = Malformed
    /\ redirects = 0
    /\ s = NoSocket
    /\ response = NoResponse
    /\ result = None
    /\ error = None
    /\ raw \in Texts
    /\ fetches = 0
    /\ connects = 0
    /\ sent = 0
    /\ requested = {}
    /\ chain = 0
    /\ got = NoResponseYet
    /\ unread = {}
    /\ closed = {}
    /\ stream = <<>>

\* line 232: decoded_text = decode_entities(text_only)
DecodeEntities ==
    /\ pc = "text"
    /\ pc' = "decoded"
    /\ result' = decode_entities(raw)
    /\ UNCHANGED <<open_sockets, cache, clock, self, redirects, s, response, error, raw, fetches, connects, sent, requested, chain, got, unread, closed, stream>>

NextEntities == DecodeEntities

SpecEntities == InitEntities /\ [][NextEntities]_vars

\* ------------------------------------------------------------------------
\* C13
\* ------------------------------------------------------------------------
\* the character of one of the five entity names
EntityChar(name) == CASE name = "lt" -> "<" [] name = "gt" -> ">" [] name = "copy" -> "(c)" [] name = "ndash" -> "--" [] name = "amp" -> "&"

RECURSIVE Replaced(_)
\* text with every occurrence of the five entities, met from left to right,
\* replaced by its character and everything else kept
Replaced(text) ==
    IF text = <<>>
    THEN <<>>
    ELSE IF Len(text) >= 3 /\ text[1] = "&" /\ text[2] \in {"lt", "gt", "copy", "ndash", "amp"} /\ text[3] = ";"
    THEN <<EntityChar(text[2])>> \o Replaced(SubSeq(text, 4, Len(text)))
    ELSE <<text[1]>> \o Replaced(Tail(text))

\* C13: decode_entities replaces every occurrence of &lt; &gt; &copy;
\* &ndash; &amp; by its character and leaves every other character unchanged
\* and in order; a text in which no "&" is followed by one of the five names
\* and a semicolon, such as &foo; or an "&" with no later semicolon, is
\* returned unchanged.
C13_DecodeEntities ==
    pc = "decoded" =>
        /\ result = Replaced(raw)
        /\ (\A i \in 1..(Len(raw) - 2) : ~(raw[i] = "&" /\ raw[i + 1] \in {"lt", "gt", "copy", "ndash", "amp"} /\ raw[i + 2] = ";")) => result = raw
        /\ ~In(";", raw) => result = raw

\* a &lt;b&gt; c, with x for the letters
C13_Witness ==
    /\ pc = "decoded"
    /\ raw = <<"x", " ", "&", "lt", ";", "x", "&", "gt", ";", " ", "x">>
    /\ result = <<"x", " ", "<", "x", ">", " ", "x">>

\* ------------------------------------------------------------------------
\* C14, C15: the redirect count
\* ------------------------------------------------------------------------
\* C14 as stated: on a 3xx response the count is incremented first, and the
\* fetch fails with TooManyRedirects if the incremented count has reached 5,
\* before the Location is resolved or the next request is issued.
C14_IncrementThenTest ==
    [][RedirectStep =>
        IF redirects + 1 >= 5
        THEN pc' = "failed" /\ error' = "TooManyRedirects" /\ sent' = sent
        ELSE error' # "TooManyRedirects"]_vars

\* C14 (amended): on a 3xx response the count is tested first: if it has
\* already reached 5 the fetch fails with TooManyRedirects, and no Location
\* is resolved, no request written and no connection opened; otherwise the
\* fetch does not fail with TooManyRedirects, and when the Location resolves
\* to a URL, request() of that URL is called with the count incremented.
C14_TestThenIncrement ==
    [][RedirectStep =>
        IF redirects >= 5
        THEN pc' = "failed" /\ error' = "TooManyRedirects" /\ self' = Malformed /\ UNCHANGED <<sent, connects, open_sockets>>
        ELSE /\ error' # "TooManyRedirects"
             /\ pc' = "call" => (redirects' = redirects + 1 /\ self' = URL(Resolve(self, response'.location.value)))
             /\ pc' = "call" <=> (~NoLocation(response'.location) /\ URL(Resolve(self, response'.location.value)).ok)]_vars

\* the fifth redirect of a chain has been followed: request() of its target
\* is called with the count 5
C14_Witness ==
    /\ pc = "call"
    /\ redirects = 5
    /\ chain = 5
    /\ response.status = 301
    /\ IsHTTP(self)

\* C15: whatever the server answers, one top-level fetch writes at most 6
\* requests and its redirect count stays within 0..5 (so that the fetch
\* ends after at most 6 responses).
C15_BoundedRedirects == sent =< 6 /\ redirects \in 0..5

\* ------------------------------------------------------------------------
\* C16
\* ------------------------------------------------------------------------
\* the text is an integer: digits after at most one sign
IsInteger(t) == IsNatural(t) \/ (t # <<>> /\ t[1] \in {"-", "+"} /\ IsNatural(Tail(t)))

\* the texts after "max-age=" of the max-age directives of a cache-control value
MaxAges(cc) == {SubSeq(Stripped(cc)[i], 3, Len(Stripped(cc)[i])) : i \in {k \in 1..Len(Stripped(cc)) : StartsWith(Stripped(cc)[k], <<"max-age", "=">>)}}

C17_CacheIsolation ==
    [][(RequestStep /\ pc' = "done" /\ got.url.ok /\ CacheKey(got.url) = CacheKey(self))
        => /\ got.url.scheme = self.scheme
           /\ got.url.host = self.host
           /\ got.url.port = self.port
           /\ got.url.path = self.path]_vars

\* C18: when the Location of a 3xx response does not contain "://", the
\* request for the redirect target goes to the (host, port) of the request
\* that received the redirect, also when that port was given explicitly.
C18_RedirectOrigin ==
    [][(RedirectStep /\ pc' = "call" /\ ~Contains(response'.location.value, <<":", "/", "/">>))
        => (IsHTTP(self') /\ SocketKey(self') = SocketKey(self))]_vars

\* ------------------------------------------------------------------------
\* Fetches of one http URL against a server that frames its responses in
\* every way: 3xx responses with a body, bodies that end with the stream
\* ------------------------------------------------------------------------
WireURLs == {<<"http", ":", "/", "/", "h", "/", "p">>}

WireResponses ==
    [status : {301}, location : {Absent, Header(<<"/", "p">>)}, cache_control : {Absent}, framing : {"content-length"}, body : {<<>>, <<"A">>}]
    \cup [status : {200}, location : {Absent}, cache_control : {Absent}, framing : Framings, body : {<<"A">>}]

NextWire ==
    \/ \E u \in WireURLs : Load(u, 0)
    \/ RequestHTTP
    \/ ConnectFails
    \/ \E r \in WireResponses : Receive(r, 0)
    \/ \E left \in BOOLEAN : ReceiveMalformed(left)
    \/ Return

SpecWire == Init /\ [][NextWire]_vars

\* ------------------------------------------------------------------------
\* C19, C20: the streams of the pooled connections
\* ------------------------------------------------------------------------
\* C19: when a request has been written to a connection, every byte of the
\* earlier responses on that connection has been consumed (the status line
\* read next is that of the response to this request), also after a 3xx
\* response with a body and after a fetch that ended in an error.
C19_FramingSynchronised == pc = "wait" => s.id \notin unread

\* C20: a connection whose body was read until the end of the stream is not
\* handed out to a later request: the connection that request() obtained is
\* open.
C20_PooledOpen == pc = "wait" => s.id \notin closed

====
